---------------------------- MODULE Spec2Model ----------------------------
(***************************************************************************)
(* Model of merge_estimates.py: consolidation of estimating spreadsheets   *)
(* (CSV/XLSX) into one master spreadsheet, deduplicated by category and    *)
(* normalized description, with an overwrite mode and an append mode.      *)
(*                                                                         *)
(* Text is modelled as a sequence of one-character strings, so that        *)
(* lowercasing, trimming, whitespace collapsing, substring search and the  *)
(* cost clean-up are computed, not assumed.  A spreadsheet cell is a       *)
(* record [na, text]: na = TRUE is a missing value (pandas NaN).  A        *)
(* unit cost (a float in the program) is an integer number of 10^-MaxCostLen*)
(* units, which is exact for every cost text of the model.                 *)
(***************************************************************************)
EXTENDS Integers, Sequences, FiniteSets, TLC

(***************************************************************************)
(* Bounds of the model.                                                    *)
(***************************************************************************)
MaxRuns == 3        \* runs of merge_estimates in one behaviour
MaxFolder == 2      \* directory entries of the input folder in one run
MaxCostLen == 3     \* length of a cost text in the clean_dataframe check
MaxStemLen == 2     \* length of a filename stem in the detect_category check
MaxCategories == 2  \* categories of a map in the detect_category check

(***************************************************************************)
(* Text helpers (str.lower, str.strip, re.sub(r"\s+", " "), `in`).         *)
(***************************************************************************)
UpperLetters ==
  <<"A","B","C","D","E","F","G","H","I","J","K","L","M",
    "N","O","P","Q","R","S","T","U","V","W","X","Y","Z">>

LowerLetters ==
  <<"a","b","c","d","e","f","g","h","i","j","k","l","m",
    "n","o","p","q","r","s","t","u","v","w","x","y","z">>

LowerChar(c) ==
  IF \E i \in 1..Len(UpperLetters) : UpperLetters[i] = c
    THEN LowerLetters[CHOOSE i \in 1..Len(UpperLetters) : UpperLetters[i] = c]
    ELSE c

Lower(s) == [i \in 1..Len(s) |-> LowerChar(s[i])]

IsSpace(c) == c \in {" ", "\t"}

RECURSIVE LStrip(_)
LStrip(s) ==
  IF s # <<>> /\ IsSpace(Head(s)) THEN LStrip(Tail(s)) ELSE s

RECURSIVE RStrip(_)
RStrip(s) ==
  IF s # <<>> /\ IsSpace(s[Len(s)]) THEN RStrip(SubSeq(s, 1, Len(s) - 1)) ELSE s

Strip(s) == RStrip(LStrip(s))

\* re.sub(r"\s+", " ", s): every maximal run of whitespace becomes one space.
RECURSIVE CollapseWs(_)
CollapseWs(s) ==
  IF s = <<>> THEN <<>>
  ELSE IF IsSpace(Head(s))
    THEN <<" ">> \o CollapseWs(LStrip(s))
    ELSE <<Head(s)>> \o CollapseWs(Tail(s))

\* Python's `sub in s` for strings.
Contains(sub, s) ==
  \E i \in 0..(Len(s) - Len(sub)) : SubSeq(s, i + 1, i + Len(sub)) = sub

StartsWith(s, p) == Len(s) >= Len(p) /\ SubSeq(s, 1, Len(p)) = p

RECURSIVE SeqsUpTo(_, _)
SeqsUpTo(S, n) ==
  IF n = 0 THEN {<<>>}
  ELSE LET shorter == SeqsUpTo(S, n - 1)
       IN  shorter \cup {Append(t, c) : t \in shorter, c \in S}

(***************************************************************************)
(* Cells.                                                                  *)
(***************************************************************************)
NaN == [na |-> TRUE, text |-> <<>>]

Str(s) == [na |-> FALSE, text |-> s]

\* Series.astype(str): a missing value becomes the text "nan".
astype_str(cell) == IF cell.na THEN <<"n","a","n">> ELSE cell.text


(***************************************************************************)
(* Numbers: float(text) for a text of digits, '.' and an optional sign.    *)
(***************************************************************************)
DigitChars == <<"0","1","2","3","4","5","6","7","8","9">>

IsDigit(c) == \E i \in 1..Len(DigitChars) : DigitChars[i] = c

DigitVal(c) == (CHOOSE i \in 1..Len(DigitChars) : DigitChars[i] = c) - 1

RECURSIVE Pow10(_)
Pow10(n) == IF n <= 0 THEN 1 ELSE 10 * Pow10(n - 1)

\* One unit of a modelled float is 10^-MaxCostLen: exact for every text with
\* at most MaxCostLen digits after the '.', which all texts of the model are.
FloatUnit == Pow10(MaxCostLen)

RECURSIVE NatOf(_)
NatOf(digits) ==
  IF digits = <<>> THEN 0
  ELSE 10 * NatOf(SubSeq(digits, 1, Len(digits) - 1)) + DigitVal(digits[Len(digits)])

DotCount(s) == Cardinality({i \in 1..Len(s) : s[i] = "."})

\* Python float(s): [ok |-> FALSE] stands for ValueError.
ParseFloat(s) ==
  LET signed == s # <<>> /\ Head(s) \in {"-", "+"}
      body   == IF signed THEN Tail(s) ELSE s
      dot    == IF DotCount(body) = 1
                  THEN CHOOSE i \in 1..Len(body) : body[i] = "."
                  ELSE Len(body) + 1
      whole  == SubSeq(body, 1, dot - 1)
      frac   == SubSeq(body, dot + 1, Len(body))
      wellFormed ==
        /\ \A i \in 1..Len(body) : IsDigit(body[i]) \/ body[i] = "."
        /\ DotCount(body) <= 1
        /\ \E i \in 1..Len(body) : IsDigit(body[i])
      magnitude ==
        NatOf(whole) * FloatUnit + NatOf(frac) * Pow10(MaxCostLen - Len(frac))
  IN  IF ~wellFormed THEN [ok |-> FALSE, value |-> 0]
      ELSE [ok |-> TRUE,
            value |-> IF signed /\ Head(s) = "-" THEN 0 - magnitude ELSE magnitude]

(***************************************************************************)
(* detect_category                                                         *)
(***************************************************************************)
\* A category map is the ordered sequence of the (category, keywords) items
\* of the dict that json.load builds from categories.json.
AnyKeywordIn(keywords, name) ==
  \E k \in 1..Len(keywords) : Contains(Lower(keywords[k]), name)

\* detect_category without the two lower() calls.
RECURSIVE detect_category_case_sensitive(_, _)
detect_category_case_sensitive(filename, categories) ==
  IF categories = <<>> THEN "Unknown"
  ELSE IF \E k \in 1..Len(Head(categories).keywords) :
            Contains(Head(categories).keywords[k], filename)
    THEN Head(categories).category
    ELSE detect_category_case_sensitive(filename, Tail(categories))

RECURSIVE detect_category(_, _)
detect_category(filename, categories) ==
  LET name == Lower(filename)
  IN  IF categories = <<>> THEN "Unknown"
      ELSE IF AnyKeywordIn(Head(categories).keywords, name)
        THEN Head(categories).category
        ELSE detect_category(filename, Tail(categories))

(***************************************************************************)
(* clean_dataframe                                                         *)
(***************************************************************************)
\* A dataframe is [columns: sequence of texts, rows: sequence of rows],
\* a row being a sequence of cells aligned with the columns.
ItemDescriptionCol == <<"i","t","e","m"," ","d","e","s","c","r","i","p","t","i","o","n">>
DescriptionCol == <<"d","e","s","c","r","i","p","t","i","o","n">>
UnitCostCol == <<"u","n","i","t"," ","c","o","s","t">>

\* df.columns.str.strip().str.lower(), then the rename of "item description".
NormalizeColumns(columns) ==
  LET lowered == [i \in 1..Len(columns) |-> Lower(Strip(columns[i]))]
  IN  [i \in 1..Len(columns) |->
         IF lowered[i] = ItemDescriptionCol THEN DescriptionCol ELSE lowered[i]]

ColumnIndexes(cols, name) == {i \in 1..Len(cols) : cols[i] = name}

\* .str.replace("[^0-9.]", "", regex=True)
StripNonNumeric(s) == SelectSeq(s, LAMBDA c : IsDigit(c) \/ c = ".")

\* .replace("", "0"): a value that is empty as a whole becomes "0".
EmptyToZero(s) == IF s = <<>> THEN <<"0">> ELSE s

CleanCostText(cell) == EmptyToZero(StripNonNumeric(astype_str(cell)))

CleanDescription(cell) == Strip(astype_str(cell))

\* clean_dataframe without the check of lines 107-109: the first column is
\* taken as the description and the last as the unit cost.
clean_dataframe_unchecked(df, source_file, category) ==
  LET costs == [r \in 1..Len(df.rows) |->
                  ParseFloat(CleanCostText(df.rows[r][Len(df.columns)]))]
  IN  IF \E r \in 1..Len(df.rows) : ~costs[r].ok
        THEN [status |-> "raise", rows |-> <<>>]
        ELSE [status |-> "ok",
              rows |-> [r \in 1..Len(df.rows) |->
                          [category    |-> category,
                           description |-> Str(CleanDescription(df.rows[r][1])),
                           unit_cost   |-> costs[r].value,
                           source_file |-> source_file]]]

\* status "none": the file is skipped (return None); "raise": an exception
\* leaves clean_dataframe (astype(float) on a text that is no number, or a
\* column label that names two columns); "ok": rows holds the cleaned rows.
clean_dataframe(df, source_file, category) ==
  LET cols  == NormalizeColumns(df.columns)
      dIdx  == ColumnIndexes(cols, DescriptionCol)
      cIdx  == ColumnIndexes(cols, UnitCostCol)
      d     == CHOOSE i \in dIdx : TRUE
      c     == CHOOSE i \in cIdx : TRUE
      costs == [r \in 1..Len(df.rows) |-> ParseFloat(CleanCostText(df.rows[r][c]))]
  IN  IF dIdx = {} \/ cIdx = {} THEN [status |-> "none", rows |-> <<>>]
      ELSE IF Cardinality(dIdx) > 1 \/ Cardinality(cIdx) > 1
        THEN [status |-> "raise", rows |-> <<>>]
      ELSE IF \E r \in 1..Len(df.rows) : ~costs[r].ok
        THEN [status |-> "raise", rows |-> <<>>]
      ELSE [status |-> "ok",
            rows |-> [r \in 1..Len(df.rows) |->
                        [category    |-> category,
                         description |-> Str(CleanDescription(df.rows[r][d])),
                         unit_cost   |-> costs[r].value,
                         source_file |-> source_file]]]

(***************************************************************************)
(* The merge: concat, read_excel / to_excel, drop_duplicates.              *)
(***************************************************************************)
RECURSIVE Concat(_)
Concat(tables) ==
  IF tables = <<>> THEN <<>> ELSE Head(tables) \o Concat(Tail(tables))

\* Texts that pandas reads back as a missing value (read_excel is called
\* with its defaults, keep_default_na=True); an empty cell is missing too.
NAStrings ==
  { <<>>, <<"n","a","n">>, <<"N","a","N">>, <<"N","A">>, <<"N","/","A">>,
    <<"n","/","a">>, <<"N","U","L","L">>, <<"n","u","l","l">>,
    <<"N","o","n","e">>, <<"#","N","/","A">> }

ReadCell(cell) == IF cell.na \/ cell.text \in NAStrings THEN NaN ELSE cell

\* pd.read_excel(output_file): the rows of the master file as loaded.  The
\* category and source file texts of the model are never NA strings.
read_excel(rows) ==
  [i \in 1..Len(rows) |->
     [rows[i] EXCEPT !.description = ReadCell(rows[i].description)]]

\* combined_df["description"].str.lower().str.replace(r"\s+", " "): a missing
\* value stays missing.
Normalized(cell) ==
  IF cell.na THEN NaN ELSE Str(CollapseWs(Lower(cell.text)))

DedupKey(row) == <<row.category, Normalized(row.description)>>

\* DataFrame.drop_duplicates(subset=["category", "normalized"]), keep="first".
RECURSIVE DropFrom(_, _)
DropFrom(rows, seen) ==
  IF rows = <<>> THEN <<>>
  ELSE IF DedupKey(Head(rows)) \in seen
    THEN DropFrom(Tail(rows), seen)
    ELSE <<Head(rows)>> \o DropFrom(Tail(rows), seen \cup {DedupKey(Head(rows))})

\* drop_duplicates on (category, description) without the normalized column.
RECURSIVE DropExactFrom(_, _)
DropExactFrom(rows, seen) ==
  IF rows = <<>> THEN <<>>
  ELSE IF <<Head(rows).category, Head(rows).description>> \in seen
    THEN DropExactFrom(Tail(rows), seen)
    ELSE <<Head(rows)>> \o
           DropExactFrom(Tail(rows),
                         seen \cup {<<Head(rows).category, Head(rows).description>>})

drop_duplicates_exact_text(rows) == DropExactFrom(rows, {})

\* drop_duplicates with keep="last".
RECURSIVE drop_duplicates_keep_last(_)
drop_duplicates_keep_last(rows) ==
  IF rows = <<>> THEN <<>>
  ELSE IF \E j \in 2..Len(rows) : DedupKey(rows[j]) = DedupKey(Head(rows))
    THEN drop_duplicates_keep_last(Tail(rows))
    ELSE <<Head(rows)>> \o drop_duplicates_keep_last(Tail(rows))

drop_duplicates(rows) == DropFrom(rows, {})

\* Lines 191-198 without the test of the mode.
existing_rows_any_mode(m, file) ==
  IF file.exists THEN read_excel(file.rows) ELSE <<>>

\* Lines 191-198: what is read from the master file in this run.
existing_rows(m, file) ==
  IF m = "append" /\ file.exists THEN read_excel(file.rows) ELSE <<>>

\* Lines 191-198: the table handed to the deduplication.
combined_rows(m, file, new) == existing_rows(m, file) \o new

(***************************************************************************)
(* The environment of the runs: directory entries and categories.json.     *)
(***************************************************************************)
\* A directory entry: Path.stem, Path.suffix and the table the file holds.
\* Ea.csv: one key twice (case and whitespace differ), two prices.
FileEa ==
  [stem |-> <<"E","a">>, suffix |-> <<".","c","s","v">>,
   table |->
     [columns |-> << <<"I","t","e","m"," ","D","e","s","c","r","i","p","t","i","o","n">>,
                     <<"U","n","i","t"," ","C","o","s","t">> >>,
      rows |-> << <<Str(<<"a"," ","b">>), Str(<<"$","1",".","5">>)>>,
                  <<Str(<<"A"," ","\t","b">>), Str(<<"2">>)>> >>]]

\* eb.xlsx: the key of Ea.csv at another price, and a row of blank cells.
FileEb ==
  [stem |-> <<"e","b">>, suffix |-> <<".","x","l","s","x">>,
   table |->
     [columns |-> << <<" ","d","e","s","c","r","i","p","t","i","o","n"," ">>,
                     <<"U","N","I","T"," ","C","O","S","T">> >>,
      rows |-> << <<Str(<<" ","a"," ","b">>), Str(<<"1">>)>>,
                  <<NaN, NaN>> >>]]

\* Ec.CSV: no description column.
FileEc ==
  [stem |-> <<"E","c">>, suffix |-> <<".","C","S","V">>,
   table |->
     [columns |-> << <<"d","e","s","c">>, <<"u","n","i","t"," ","c","o","s","t">> >>,
      rows |-> << <<Str(<<"a"," ","b">>), Str(<<"9">>)>> >>]]

\* d.csv: a cost text with two '.' characters.
FileD ==
  [stem |-> <<"d">>, suffix |-> <<".","c","s","v">>,
   table |->
     [columns |-> << <<"d","e","s","c","r","i","p","t","i","o","n">>,
                     <<"u","n","i","t"," ","c","o","s","t">> >>,
      rows |-> << <<Str(<<"b">>), Str(<<"1",".","2",".">>)>> >>]]

\* ~$Ea.xlsx: the lock file Excel keeps beside an open workbook.
FileLock == [FileEb EXCEPT !.stem = <<"~","$","E","a">>]

\* Ea.txt: not a spreadsheet.
FileTxt == [FileEa EXCEPT !.suffix = <<".","t","x","t">>]

DirEntries == {FileEa, FileEb, FileEc, FileD, FileLock, FileTxt}

IsInjective(q) == \A i, j \in 1..Len(q) : q[i] = q[j] => i = j

\* Path.iterdir() yields the entries of the folder in arbitrary order.
Listings == {d \in SeqsUpTo(DirEntries, MaxFolder) : IsInjective(d)}

ElectricalItem == [category |-> "Electrical", keywords |-> << <<"e">> >>]
PlumbingItem == [category |-> "Plumbing", keywords |-> << <<"P">>, <<"b">> >>]

\* categories.json: absent, or one of two maps that differ in their order.
Configs ==
  { [present |-> FALSE, map |-> <<>>],
    [present |-> TRUE, map |-> <<ElectricalItem, PlumbingItem>>],
    [present |-> TRUE, map |-> <<PlumbingItem, ElectricalItem>>] }

Modes == {"overwrite", "append"}

FileName(f) == f.stem \o f.suffix

\* Lines 152-155.
IsInputFile(f) ==
  /\ Lower(f.suffix) \in {<<".","x","l","s","x">>, <<".","c","s","v">>}
  /\ ~StartsWith(FileName(f), <<"~","$">>)

\* pd.read_csv / pd.read_excel: the table of the file.
LoadTable(f) == f.table

(***************************************************************************)
(* State.                                                                  *)
(***************************************************************************)
VARIABLES
  master,                 \* the master file: [exists, rows]
  pc,                     \* "idle", or the step merge_estimates is at
  runs,                   \* runs started so far
  mode,                   \* merge_estimates' mode argument
  categories,             \* the loaded category map
  all_files,              \* the input files, in the order of enumeration
  idx,                    \* position of the loop over all_files
  combined_data,          \* the cleaned tables collected so far
  total_files_processed,
  total_items_processed,
  new_data,               \* the concatenation of combined_data
  existing_df,            \* the rows read from the master file, if any
  masterBefore,           \* the master file when the run started
  outcome,                \* how the last run ended, "running" until then
  post,                   \* what happened after the write
  prev,                   \* an earlier overwrite run, for comparison
  call,                   \* the arguments of a single function call
  result                  \* what that call returned

vars ==
  <<master, pc, runs, mode, categories, all_files, idx, combined_data,
    total_files_processed, total_items_processed, new_data, existing_df,
    masterBefore, outcome, post, prev, call, result>>

locals ==
  <<categories, all_files, idx, combined_data, total_files_processed,
    total_items_processed, new_data, existing_df>>

probe == <<call, result>>

NoFile == [exists |-> FALSE, rows |-> <<>>]

NoPrev == [valid |-> FALSE, files |-> {}, categories |-> <<>>, rows |-> <<>>]

NoCall == [fn |-> "none"]

NoResult == [returned |-> FALSE]

\* The locals are gone when merge_estimates returns or an exception leaves it.
LocalsGone ==
  /\ categories' = <<>>
  /\ all_files' = <<>>
  /\ idx' = 0
  /\ combined_data' = <<>>
  /\ total_files_processed' = 0
  /\ total_items_processed' = 0
  /\ new_data' = <<>>
  /\ existing_df' = <<>>

Init ==
  /\ master = NoFile
  /\ pc = "idle"
  /\ runs = 0
  /\ mode = "overwrite"
  /\ categories = <<>>
  /\ all_files = <<>>
  /\ idx = 0
  /\ combined_data = <<>>
  /\ total_files_processed = 0
  /\ total_items_processed = 0
  /\ new_data = <<>>
  /\ existing_df = <<>>
  /\ masterBefore = NoFile
  /\ outcome = "none"
  /\ post = {}
  /\ prev = NoPrev
  /\ call = NoCall
  /\ result = NoResult

(***************************************************************************)
(* merge_estimates, step by step.                                          *)
(***************************************************************************)
\* Lines 140-163: load the configuration and collect the input files.
StartRun(m, cfg, listing) ==
  /\ pc = "idle"
  /\ runs < MaxRuns
  /\ runs' = runs + 1
  /\ mode' = m
  /\ masterBefore' = master
  /\ post' = {}
  /\ UNCHANGED <<master, prev, probe>>
  /\ IF ~cfg.present
       THEN /\ outcome' = "no_config"
            /\ pc' = "idle"
            /\ LocalsGone
     ELSE IF SelectSeq(listing, IsInputFile) = <<>>
       THEN /\ outcome' = "no_files"
            /\ pc' = "idle"
            /\ LocalsGone
     ELSE /\ outcome' = "running"
          /\ pc' = "loop"
          /\ categories' = cfg.map
          /\ all_files' = SelectSeq(listing, IsInputFile)
          /\ idx' = 1
          /\ combined_data' = <<>>
          /\ total_files_processed' = 0
          /\ total_items_processed' = 0
          /\ new_data' = <<>>
          /\ existing_df' = <<>>

\* Lines 168-180: one iteration of the loop over all_files.
ProcessFile ==
  /\ pc = "loop"
  /\ idx <= Len(all_files)
  /\ LET file     == all_files[idx]
         category == detect_category(file.stem, categories)
         df_clean == clean_dataframe(LoadTable(file), FileName(file), category)
     IN  CASE df_clean.status = "raise" ->
                /\ outcome' = "exception"
                /\ pc' = "idle"
                /\ LocalsGone
           [] df_clean.status = "none" ->
                /\ idx' = idx + 1
                /\ UNCHANGED <<outcome, pc, categories, all_files, combined_data,
                               total_files_processed, total_items_processed,
                               new_data, existing_df>>
           [] df_clean.status = "ok" ->
                /\ idx' = idx + 1
                /\ combined_data' = Append(combined_data, df_clean.rows)
                /\ total_files_processed' = total_files_processed + 1
                /\ total_items_processed' = total_items_processed + Len(df_clean.rows)
                /\ UNCHANGED <<outcome, pc, categories, all_files, new_data,
                               existing_df>>
  /\ UNCHANGED <<master, runs, mode, masterBefore, post, prev, probe>>

\* Lines 182-184 without the return: the empty table is saved.
AbortNoValidData_saves_empty ==
  /\ pc = "loop"
  /\ idx > Len(all_files)
  /\ combined_data = <<>>
  /\ master' = [exists |-> TRUE, rows |-> <<>>]
  /\ outcome' = "no_valid"
  /\ pc' = "idle"
  /\ LocalsGone
  /\ UNCHANGED <<runs, mode, masterBefore, post, prev, probe>>

\* Lines 182-184: no file gave a table.
AbortNoValidData ==
  /\ pc = "loop"
  /\ idx > Len(all_files)
  /\ combined_data = <<>>
  /\ outcome' = "no_valid"
  /\ pc' = "idle"
  /\ LocalsGone
  /\ UNCHANGED <<master, runs, mode, masterBefore, post, prev, probe>>

\* Lines 186-221: concatenate, append or overwrite, deduplicate, save.
MergeAndWrite ==
  /\ pc = "loop"
  /\ idx > Len(all_files)
  /\ combined_data # <<>>
  /\ new_data' = Concat(combined_data)
  /\ existing_df' = existing_rows(mode, master)
  /\ master' = [exists |-> TRUE,
                rows |-> drop_duplicates(combined_rows(mode, master, new_data'))]
  /\ pc' = "resize"
  /\ UNCHANGED <<runs, mode, categories, all_files, idx, combined_data,
                 total_files_processed, total_items_processed, masterBefore,
                 outcome, post, prev, probe>>

\* Line 222, lines 28-44: the workbook is loaded, resized and saved again.
AutoAdjustColumnWidth ==
  /\ pc = "resize"
  /\ pc' = "open"
  /\ post' = post \cup {"resized"}
  /\ UNCHANGED <<master, runs, mode, locals, masterBefore, outcome, prev, probe>>

\* Line 222: load_workbook or wb.save raises; nothing catches the exception
\* in auto_adjust_column_width or in merge_estimates.
AutoAdjustRaisesStep ==
  /\ pc = "resize"
  /\ post' = post \cup {"resize_failed"}
  /\ outcome' = "exception"
  /\ pc' = "idle"
  /\ LocalsGone
  /\ UNCHANGED <<master, runs, mode, masterBefore, probe>>

AutoAdjustRaises == AutoAdjustRaisesStep /\ UNCHANGED prev

\* Line 223, lines 47-63: the viewer is launched; an exception is caught
\* and reported, and merge_estimates returns either way.
OpenMasterFileStep(launched) ==
  /\ pc = "open"
  /\ post' = post \cup {"open_attempted"} \cup
               (IF launched THEN {"opened"} ELSE {"open_failed"})
  /\ outcome' = "returned"
  /\ pc' = "idle"
  /\ LocalsGone
  /\ UNCHANGED <<master, runs, mode, masterBefore, probe>>

OpenMasterFile(launched) == OpenMasterFileStep(launched) /\ UNCHANGED prev

Next ==
  \/ \E m \in Modes, cfg \in Configs, listing \in Listings : StartRun(m, cfg, listing)
  \/ ProcessFile
  \/ AbortNoValidData
  \/ MergeAndWrite
  \/ AutoAdjustColumnWidth
  \/ AutoAdjustRaises
  \/ \E launched \in BOOLEAN : OpenMasterFile(launched)

Spec == Init /\ [][Next]_vars

(***************************************************************************)
(* The same runs, with the last overwrite run that wrote kept in prev: its *)
(* set of input files, its category map and the rows it wrote.             *)
(***************************************************************************)
Remember ==
  IF mode = "overwrite"
    THEN [valid |-> TRUE, files |-> {all_files[i] : i \in 1..Len(all_files)},
          categories |-> categories, rows |-> master.rows]
    ELSE prev

AutoAdjustRaisesRemembered == AutoAdjustRaisesStep /\ prev' = Remember

OpenMasterFileRemembered(launched) ==
  OpenMasterFileStep(launched) /\ prev' = Remember

NextRemembered ==
  \/ \E m \in Modes, cfg \in Configs, listing \in Listings : StartRun(m, cfg, listing)
  \/ ProcessFile
  \/ AbortNoValidData
  \/ MergeAndWrite
  \/ AutoAdjustColumnWidth
  \/ AutoAdjustRaisesRemembered
  \/ \E launched \in BOOLEAN : OpenMasterFileRemembered(launched)

SpecRemembered == Init /\ [][NextRemembered]_vars

(***************************************************************************)
(* clean_dataframe alone, over every cost text of a small alphabet.        *)
(***************************************************************************)
CostChars == {"1", "5", ".", "$", ",", "-"}

CostCells == {NaN} \cup {Str(t) : t \in SeqsUpTo(CostChars, MaxCostLen)}

DescriptionCells == {NaN, Str(<<" ","a"," ">>)}

\* Two descriptions and a unit cost: both labels name the description.
TwiceDescribed ==
  << <<"D","e","s","c","r","i","p","t","i","o","n">>,
     <<"d","e","s","c","r","i","p","t","i","o","n"," ">>,
     <<"u","n","i","t"," ","c","o","s","t">> >>

\* A description and no unit cost.
NoUnitCost ==
  << <<"d","e","s","c","r","i","p","t","i","o","n">>, <<"c","o","s","t">> >>

ColumnChoices ==
  { FileEa.table.columns, FileEb.table.columns, FileEc.table.columns,
    NoUnitCost, TwiceDescribed }

\* A row with the description first and the cost last.
RowOf(columns, d, c) ==
  [i \in 1..Len(columns) |-> IF i = Len(columns) THEN c ELSE d]

CleanCalls ==
  { [fn |-> "clean_dataframe",
     df |-> [columns |-> cols,
             rows |-> <<RowOf(cols, d, c), RowOf(cols, Str(<<"b">>), Str(<<"5">>))>>],
     source_file |-> FileName(FileEa),
     category |-> "Electrical"] :
    cols \in ColumnChoices, d \in DescriptionCells, c \in CostCells }

InitClean ==
  /\ master = NoFile
  /\ pc = "idle"
  /\ runs = 0
  /\ mode = "overwrite"
  /\ categories = <<>>
  /\ all_files = <<>>
  /\ idx = 0
  /\ combined_data = <<>>
  /\ total_files_processed = 0
  /\ total_items_processed = 0
  /\ new_data = <<>>
  /\ existing_df = <<>>
  /\ masterBefore = NoFile
  /\ outcome = "none"
  /\ post = {}
  /\ prev = NoPrev
  /\ call \in CleanCalls
  /\ result = NoResult

CallCleanDataframe ==
  /\ call.fn = "clean_dataframe"
  /\ ~result.returned
  /\ result' = [returned |-> TRUE,
                value |-> clean_dataframe(call.df, call.source_file, call.category)]
  /\ UNCHANGED <<master, pc, runs, mode, locals, masterBefore, outcome, post,
                 prev, call>>

NextClean == CallCleanDataframe

SpecClean == InitClean /\ [][NextClean]_vars

(***************************************************************************)
(* detect_category alone, over small stems and category maps.              *)
(***************************************************************************)
StemChars == {"a", "A", "b"}

\* Path.stem of a directory entry is never empty.
Stems == SeqsUpTo(StemChars, MaxStemLen) \ {<<>>}

KeywordLists ==
  { <<>>, << <<"A">> >>, << <<"b","a">>, <<"a","a">> >>, << <<>> >> }

CategoryNames == {"Electrical", "Plumbing", "Unknown"}

CategoryItems ==
  {[category |-> c, keywords |-> k] : c \in CategoryNames, k \in KeywordLists}

\* The keys of a dict are distinct.
CategoryMaps ==
  {cm \in SeqsUpTo(CategoryItems, MaxCategories) :
     \A i, j \in 1..Len(cm) : cm[i].category = cm[j].category => i = j}

DetectCalls ==
  { [fn |-> "detect_category", filename |-> stem, categories |-> cm] :
    stem \in Stems, cm \in CategoryMaps }

InitDetect ==
  /\ master = NoFile
  /\ pc = "idle"
  /\ runs = 0
  /\ mode = "overwrite"
  /\ categories = <<>>
  /\ all_files = <<>>
  /\ idx = 0
  /\ combined_data = <<>>
  /\ total_files_processed = 0
  /\ total_items_processed = 0
  /\ new_data = <<>>
  /\ existing_df = <<>>
  /\ masterBefore = NoFile
  /\ outcome = "none"
  /\ post = {}
  /\ prev = NoPrev
  /\ call \in DetectCalls
  /\ result = NoResult

CallDetectCategory ==
  /\ call.fn = "detect_category"
  /\ ~result.returned
  /\ result' = [returned |-> TRUE,
                value |-> detect_category(call.filename, call.categories)]
  /\ UNCHANGED <<master, pc, runs, mode, locals, masterBefore, outcome, post,
                 prev, call>>

NextDetect == CallDetectCategory

SpecDetect == InitDetect /\ [][NextDetect]_vars

(***************************************************************************)
(* Properties.                                                             *)
(***************************************************************************)
Indexes(q) == 1..Len(q)

KeysOf(rows) == {DedupKey(rows[i]) : i \in Indexes(rows)}

\* The positions of rows whose key no earlier row has.
FirstPositions(rows) ==
  {i \in Indexes(rows) : \A j \in 1..(i - 1) : DedupKey(rows[j]) # DedupKey(rows[i])}

\* The n-th smallest element of a set of positions.
NthOf(positions, n) ==
  CHOOSE i \in positions : Cardinality({j \in positions : j <= i}) = n

\* kept is rows with exactly the rows at FirstPositions, in their order.
IsFirstOccurrences(kept, rows) ==
  /\ Len(kept) = Cardinality(FirstPositions(rows))
  /\ \A n \in Indexes(kept) : kept[n] = rows[NthOf(FirstPositions(rows), n)]

JustWritten == pc = "resize"

\* C1: the master table a run writes has no two rows with the same
\* (category, normalized description) key.
C1_UniqueKeys ==
  master.exists =>
    \A i, j \in Indexes(master.rows) :
      DedupKey(master.rows[i]) = DedupKey(master.rows[j]) => i = j

\* An append run onto an existing master file has just written, and the
\* deduplication dropped rows and kept several.
C1_Witness ==
  /\ JustWritten
  /\ mode = "append"
  /\ masterBefore.exists
  /\ Len(master.rows) >= 2
  /\ Len(existing_df) + Len(new_data) > Len(master.rows)

\* C2: the written table is the combined table (existing rows as loaded,
\* then the new rows in enumeration and row order) reduced to the earliest
\* row of every key, the kept rows unchanged and in their relative order,
\* whatever the unit cost and source file of the dropped rows.
C2_FirstOccurrenceKept ==
  JustWritten => IsFirstOccurrences(master.rows, existing_df \o new_data)

\* A later row was dropped although its price and source file differ from
\* those of the kept row with its key, in an append run with existing rows.
C2_Witness ==
  /\ JustWritten
  /\ existing_df # <<>>
  /\ LET rows == existing_df \o new_data
     IN  \E i, j \in Indexes(rows) :
           /\ i < j
           /\ i \in FirstPositions(rows)
           /\ DedupKey(rows[i]) = DedupKey(rows[j])
           /\ rows[i].unit_cost # rows[j].unit_cost
           /\ rows[i].source_file # rows[j].source_file
           /\ rows[i].description # rows[j].description

\* C3 as stated: after an append run onto an existing master file the keys of
\* the master file are the keys it had (as the run loaded them) together with
\* the keys of the new rows, and it has no fewer rows than before.
C3_AppendMonotone ==
  (pc \in {"resize", "open"} /\ mode = "append" /\ masterBefore.exists) =>
    /\ KeysOf(master.rows) = KeysOf(read_excel(masterBefore.rows)) \cup KeysOf(new_data)
    /\ Len(master.rows) >= Len(masterBefore.rows)

\* C4 as stated: two overwrite runs over the same set of input files and the
\* same category map write the same sequence of rows.
C4_OverwriteIdempotent ==
  ( /\ pc \in {"resize", "open"}
    /\ mode = "overwrite"
    /\ prev.valid
    /\ prev.files = {all_files[i] : i \in Indexes(all_files)}
    /\ prev.categories = categories ) =>
    master.rows = prev.rows

\* The table has the description and the unit cost column, each once.
HasRequiredColumns(columns) ==
  LET named(target) ==
        {i \in Indexes(columns) : Lower(Strip(columns[i])) \in target}
  IN  /\ Cardinality(named({DescriptionCol, ItemDescriptionCol})) = 1
      /\ Cardinality(named({UnitCostCol})) = 1

\* C5 as stated: for a table with both required columns clean_dataframe does
\* not fail and gives every row a non-negative unit cost, the number that the
\* cost text denotes once all but digits and '.' are removed ("0" if nothing
\* is left).
C5_CostAlwaysParsed ==
  (result.returned /\ call.fn = "clean_dataframe"
     /\ HasRequiredColumns(call.df.columns)) =>
    /\ result.value.status = "ok"
    /\ Len(result.value.rows) = Len(call.df.rows)
    /\ \A r \in Indexes(result.value.rows) :
         LET text == astype_str(call.df.rows[r][Len(call.df.columns)])
             kept == SelectSeq(text, LAMBDA ch : IsDigit(ch) \/ ch = ".")
         IN  /\ result.value.rows[r].unit_cost >= 0
             /\ result.value.rows[r].unit_cost =
                  ParseFloat(IF kept = <<>> THEN <<"0">> ELSE kept).value

\* C6 as stated: a failure to resize the columns or to launch the viewer is
\* swallowed: the run completes normally, the remaining steps were attempted
\* and the master file holds the merge result.
C6_PostProcessingSwallowed ==
  (pc = "idle" /\ post \cap {"resize_failed", "open_failed"} # {}) =>
    /\ outcome = "returned"
    /\ "open_attempted" \in post
    /\ master.exists

LacksRequiredColumn(f) ==
  LET names == {Lower(Strip(f.table.columns[i])) : i \in Indexes(f.table.columns)}
  IN  \/ names \cap {DescriptionCol, ItemDescriptionCol} = {}
      \/ UnitCostCol \notin names

CleanRowsOf(f, cats) ==
  clean_dataframe(LoadTable(f), FileName(f), detect_category(f.stem, cats)).rows

RECURSIVE NewDataOf(_, _)
NewDataOf(files, cats) ==
  IF files = <<>> THEN <<>>
  ELSE CleanRowsOf(Head(files), cats) \o NewDataOf(Tail(files), cats)

\* C8: a file lacking a required column contributes no row and is not counted
\* as processed, and the run goes on: what is written is what the run would
\* have written over the other files alone.
C8_RejectedFileSkipped ==
  LET accepted == SelectSeq(all_files, LAMBDA f : ~LacksRequiredColumn(f))
      seen     == SubSeq(all_files, 1, idx - 1)
  IN  /\ pc = "loop" =>
           /\ total_files_processed =
                Len(SelectSeq(seen, LAMBDA f : ~LacksRequiredColumn(f)))
           /\ \A t \in Indexes(combined_data) : \A r \in Indexes(combined_data[t]) :
                \A f \in {seen[i] : i \in Indexes(seen)} :
                  LacksRequiredColumn(f) =>
                    combined_data[t][r].source_file # FileName(f)
      /\ JustWritten =>
           /\ total_files_processed = Len(accepted)
           /\ master.rows =
                drop_duplicates(
                  combined_rows(mode, masterBefore, NewDataOf(accepted, categories)))

\* A run has written although one of its two files was rejected.
C8_Witness ==
  /\ JustWritten
  /\ Len(all_files) = 2
  /\ total_files_processed = 1
  /\ \E i \in Indexes(all_files) : LacksRequiredColumn(all_files[i])

\* C9: unless the mode is append and the master file exists, the written
\* table is the deduplicated new data whatever the master file held; an
\* append run without a master file writes what an overwrite run writes.
C9_MasterReadOnlyOnAppend ==
  (JustWritten /\ (mode = "overwrite" \/ ~masterBefore.exists)) =>
    IsFirstOccurrences(master.rows, new_data)

\* An overwrite run has written while the master file held a row whose key
\* is not among the new rows.
C9_Witness ==
  /\ JustWritten
  /\ mode = "overwrite"
  /\ masterBefore.exists
  /\ \E i \in Indexes(masterBefore.rows) :
       DedupKey(masterBefore.rows[i]) \notin KeysOf(new_data)

\* A keyword of the item is a case-insensitive substring of the stem.
ItemMatches(item, stem) ==
  \E k \in Indexes(item.keywords) :
    \E i, j \in 0..Len(stem) :
      SubSeq(Lower(stem), i + 1, j) = Lower(item.keywords[k])

MatchingItems(cm, stem) == {i \in Indexes(cm) : ItemMatches(cm[i], stem)}

FirstMatchReturned ==
  LET ms == MatchingItems(call.categories, call.filename)
  IN  /\ ms = {} => result.value = "Unknown"
      /\ ms # {} =>
           result.value =
             call.categories[CHOOSE i \in ms : \A j \in ms : i <= j].category

\* C10 as stated: detect_category returns the first category, in
\* configuration order, with a matching keyword, and returns "Unknown"
\* exactly when no keyword of any category matches.
C10_UnknownExactlyWhenNoMatch ==
  (result.returned /\ call.fn = "detect_category") =>
    /\ FirstMatchReturned
    /\ result.value = "Unknown" <=>
         MatchingItems(call.categories, call.filename) = {}

\* C10 amended: detect_category returns the first category, in configuration
\* order, with a matching keyword, and "Unknown" when no keyword matches;
\* "Unknown" is returned otherwise only when the first matching category is
\* itself named "Unknown".
C10_FirstMatchOrUnknown ==
  (result.returned /\ call.fn = "detect_category") =>
    /\ FirstMatchReturned
    /\ result.value = "Unknown" =>
         LET ms == MatchingItems(call.categories, call.filename)
         IN  \/ ms = {}
             \/ call.categories[CHOOSE i \in ms : \A j \in ms : i <= j].category
                  = "Unknown"

\* Two categories match, the first of them is named "Unknown", and that is
\* what was returned.
C10_Witness ==
  /\ result.returned
  /\ call.fn = "detect_category"
  /\ Cardinality(MatchingItems(call.categories, call.filename)) = 2
  /\ call.categories[1].category = "Unknown"
  /\ call.categories[2].category # "Unknown"
  /\ result.value = "Unknown"
=============================================================================
